---- MODULE Spec2Model ----
(***************************************************************************)
(* Model of flake8's plugin management layer (flake8/plugins/manager.py)   *)
(* and of the formatter base class (flake8/formatting/base.py).            *)
(*                                                                         *)
(* Every public method is one atomic action.  What a call did is kept in   *)
(* observation variables: lastOp and lastArg (which method, on what), log  *)
(* (the calls the method made, in order), exc (the exception that left the *)
(* method, NoExc if it returned) and ret (a returned list).  Three         *)
(* specifications share the module: Spec (a Listeners manager and its      *)
(* plugins), CheckersSpec (the classification of a Checkers manager) and   *)
(* FormatterSpec (a BaseFormatter).                                        *)
(***************************************************************************)
EXTENDS Integers, Sequences, FiniteSets, TLC

(***************************************************************************)
(* Bounds                                                                  *)
(***************************************************************************)
\* largest number of entry points the registry enumerates for a namespace
MaxPlugins == 3
\* number of distinct objects an entry point may resolve to
NumObjects == 2
\* largest number of lines kept per output stream
MaxOutput == 2
\* largest number of file handles a formatter opens
MaxOpens == 2

(***************************************************************************)
(* The host environment: the entry points registered under a namespace.    *)
(***************************************************************************)
Registered(ns) ==
    IF ns = "flake8.extension" THEN {"A", "B", "C", "D"} ELSE {"A", "B", "C"}

\* parameter names of the entry function of each plugin
DeclaredParameters(p) ==
    CASE p = "A" -> <<"tree">>
      [] p = "B" -> <<"physical_line">>
      [] p = "C" -> <<>>
      [] OTHER   -> <<"logical_line", "tree">>

\* does the loaded object have an add_options attribute
HasAddOptions(p) == p \in {"A", "C"}

\* shape of the loaded object's parse_options attribute:
\* "none" (absent), "three" (optmanager, options, extra_args), "one" (options)
ParseOptionsShape(p) ==
    CASE p = "A" -> "three"
      [] p = "B" -> "one"
      [] p = "C" -> "none"
      [] OTHER   -> "three"

\* does the entry point offer resolve() and require() (newer setuptools)
HasResolveRequire(p) == p \in {"A", "C"}

None == 0
Objects == 1..NumObjects

\* what the environment does when an entry point is resolved during a call:
\* require = requirement verification succeeds, resolve = the object the
\* resolution yields, None when the resolution raises
LoadOutcomes == [require : BOOLEAN, resolve : {None} \cup Objects]
\* what a hook of the loaded object does when its body runs: it returns, or
\* raises a TypeError of its own, or raises some other error
HookOutcomes == {"ok", "TypeError", "Error"}

(***************************************************************************)
(* Exceptions                                                              *)
(***************************************************************************)
Exc(t) == [type |-> t, plugin |-> "", exception |-> ""]
NoExc == Exc("none")
FailedToLoadPlugin(p, e) ==
    [type |-> "FailedToLoadPlugin", plugin |-> p, exception |-> e.type]

VARIABLES
    namespace,       \* PluginManager.namespace, set by the manager's class
    names,           \* PluginManager.names
    plugins,         \* PluginManager.plugins : name -> Plugin
    values_order,    \* order in which plugins.values() iterates
    _plugin,         \* Plugin._plugin, None or the loaded object
    _parameters,     \* Plugin._parameters, unset or the cached list
    plugins_loaded,  \* PluginTypeManager.plugins_loaded
    _ast_plugins, _logical_line_plugins, _physical_line_plugins,
    notifier,        \* listeners registered in the last returned Notifier
    filename,        \* BaseFormatter.filename
    newline,         \* BaseFormatter.newline
    output_fd,       \* BaseFormatter.output_fd, None or an open file object
    has_format,      \* the formatter's class overrides format()
    opened,          \* number of file objects open() has returned
    closed,          \* the file objects that were closed
    file_content,    \* what was written to the file since it was truncated
    stdout,          \* what was printed to standard output
    phase,           \* lifecycle: "new", "started" (start returned), "stopped"
    lastOp, lastArg, log, exc, ret

pluginVars == <<namespace, names, plugins, values_order, _plugin, _parameters,
                plugins_loaded, _ast_plugins, _logical_line_plugins,
                _physical_line_plugins, notifier,
                lastOp, lastArg, log, exc, ret>>

formatterVars == <<filename, newline, output_fd, has_format, opened, closed,
                   file_content, stdout, phase>>

vars == <<pluginVars, formatterVars>>

Range(s) == {s[i] : i \in DOMAIN s}

Unset == [set |-> FALSE, val |-> <<>>]
Cached(l) == [set |-> TRUE, val |-> l]

(***************************************************************************)
(* The running call: the fields of the objects it may change (plugin is    *)
(* Plugin._plugin, params is Plugin._parameters, loaded is plugins_loaded),*)
(* the calls made so far, the exception in flight, the items a generator   *)
(* has yielded and the Notifier under construction.                        *)
(***************************************************************************)
Entry ==
    [plugin |-> _plugin, params |-> _parameters, loaded |-> plugins_loaded,
     log |-> <<>>, exc |-> NoExc, yield |-> <<>>, trie |-> {}]
Log(ctx, ev, p) == [ctx EXCEPT !.log = Append(@, <<ev, p>>)]
Raise(ctx, e) == [ctx EXCEPT !.exc = e]
\* an exception raised by the environment, seen in the log where it arose
RaiseIn(ctx, t, p) == Raise(Log(ctx, t, p), Exc(t))

(***************************************************************************)
(* Plugin                                                                  *)
(***************************************************************************)
\* utils.parameters_for: the parameter names the entry function declares
parameters_for(p) == DeclaredParameters(p)

Plugin_parameters(ctx, p) ==
    IF ~ctx.params[p].set
    THEN [ctx EXCEPT !.params[p] = Cached(parameters_for(p))]
    ELSE ctx

Plugin_load(ctx, p, verify_requirements, out) ==
    IF HasResolveRequire(p)
    THEN LET c1 == IF verify_requirements THEN Log(ctx, "require", p) ELSE ctx
         IN  IF verify_requirements /\ ~out.require
             THEN RaiseIn(c1, "DistributionNotFound", p)
             ELSE LET c2 == Log(c1, "resolve", p)
                  IN  IF out.resolve = None
                      THEN RaiseIn(c2, "ImportError", p)
                      ELSE [c2 EXCEPT !.plugin[p] = out.resolve]
    ELSE \* entry_point.load(require=verify_requirements)
         LET c1 == Log(ctx, "load", p)
         IN  IF verify_requirements /\ ~out.require
             THEN RaiseIn(c1, "DistributionNotFound", p)
             ELSE IF out.resolve = None
                  THEN RaiseIn(c1, "ImportError", p)
                  ELSE [c1 EXCEPT !.plugin[p] = out.resolve]

\* load_plugin without the "is None" test: resolves on every call
Plugin_load_plugin_reloading(ctx, p, verify_requirements, out) ==
    LET c1 == Plugin_load(Log(ctx, "load_plugin", p), p, verify_requirements, out)
    IN  IF c1.exc # NoExc
        THEN Raise(c1, FailedToLoadPlugin(p, c1.exc))
        ELSE c1

\* load_plugin that lets the original exception through unwrapped
Plugin_load_plugin_unwrapped(ctx, p, verify_requirements, out) ==
    LET c0 == Log(ctx, "load_plugin", p)
    IN  IF c0.plugin[p] = None
        THEN Plugin_load(c0, p, verify_requirements, out)
        ELSE c0

Plugin_load_plugin(ctx, p, verify_requirements, out) ==
    LET c0 == Log(ctx, "load_plugin", p)
    IN  IF c0.plugin[p] = None
        THEN LET c1 == Plugin_load(c0, p, verify_requirements, out)
             IN  IF c1.exc # NoExc
                 THEN Raise(c1, FailedToLoadPlugin(p, c1.exc))
                 ELSE c1
        ELSE c0

\* the plugin property: load_plugin() and then read _plugin
Plugin_plugin(ctx, p, out) == Plugin_load_plugin(ctx, p, FALSE, out)

Plugin_execute(ctx, p, out, body) ==
    LET c1 == Plugin_plugin(ctx, p, out)
    IN  IF c1.exc # NoExc THEN c1
        ELSE LET c2 == Log(c1, "call", p)
             IN  IF body = "ok" THEN c2 ELSE Raise(c2, Exc(body))

\* a call of the loaded object's parse_options with n arguments ("3" or
\* "1"): a hook of another shape rejects the call with a TypeError of the
\* interpreter, otherwise the body runs and returns or raises
parse_options(ctx, p, n, body) ==
    LET c1 == Log(ctx, IF n = "three" THEN "parse_options3"
                                      ELSE "parse_options1", p)
    IN  IF ParseOptionsShape(p) # n
        THEN Raise(Log(c1, "TypeError.arity", p), Exc("TypeError"))
        ELSE LET c2 == Log(c1, "parse_options.body", p)
             IN  IF body = "ok" THEN c2 ELSE RaiseIn(c2, body, p)

\* provide_options without the except clause
Plugin_provide_options_strict(ctx, p, out, body) ==
    LET c1 == Plugin_plugin(ctx, p, out)
    IN  IF c1.exc # NoExc \/ ParseOptionsShape(p) = "none" THEN c1
        ELSE parse_options(c1, p, "three", body)

Plugin_provide_options(ctx, p, out, body) ==
    LET c1 == Plugin_plugin(ctx, p, out)
    IN  IF c1.exc # NoExc \/ ParseOptionsShape(p) = "none" THEN c1
        ELSE LET c2 == parse_options(c1, p, "three", body)
             IN  \* except TypeError: whoever raised it
                 IF c2.exc = Exc("TypeError")
                 THEN parse_options(Raise(c2, NoExc), p, "one", body)
                 ELSE c2

Plugin_register_options(ctx, p, out, body) ==
    LET c1 == Plugin_plugin(ctx, p, out)
    IN  IF c1.exc # NoExc \/ ~HasAddOptions(p) THEN c1
        ELSE LET c2 == Log(c1, "add_options", p)
             IN  IF body # "ok" THEN Raise(c2, Exc(body))
                 ELSE \* self.plugin.name and self.plugin.version
                      LET c3 == Plugin_plugin(Plugin_plugin(c2, p, out), p, out)
                      IN  Log(c3, "register_plugin", p)

(***************************************************************************)
(* PluginManager                                                           *)
(***************************************************************************)
\* the entry points iter_entry_points yields: distinct names in some order
Enumerations(ns) ==
    {s \in UNION {[1..n -> Registered(ns)] : n \in 0..MaxPlugins} :
        \A i, j \in DOMAIN s : i # j => s[i] # s[j]}

\* PluginManager.__init__ and _load_all_plugins on an enumeration
PluginManager_init(enumeration) ==
    /\ names = enumeration
    /\ plugins = [n \in Range(enumeration) |-> n]
    /\ _plugin = [n \in Range(enumeration) |-> None]
    /\ _parameters = [n \in Range(enumeration) |-> Unset]

\* the entry points iter_entry_points yields when distributions are free to
\* register a name more than once: any names in any order
RepeatedEnumerations(ns) ==
    UNION {[1..n -> Registered(ns)] : n \in 0..MaxPlugins}

\* outcomes of resolving an entry point during a call: requirement
\* verification matters only when it is asked for
OutcomesFor(verify_requirements) ==
    {o \in LoadOutcomes : verify_requirements \/ o.require}

\* what the body of a hook may do, when the loaded object has the hook
BodiesFor(hasHook) == IF hasHook THEN HookOutcomes ELSE {"ok"}

\* the function map() is given, applied to one plugin: every way the call
\* can end
generated_function(func, ctx, p) ==
    CASE func = "load_plugin" ->
            {Plugin_load_plugin(ctx, p, FALSE, out) :
                out \in OutcomesFor(FALSE)}
      [] func = "register_options" ->
            {Plugin_register_options(ctx, p, oh[1], oh[2]) :
                oh \in OutcomesFor(FALSE)
                       \X BodiesFor(HasAddOptions(p))}
      [] OTHER ->
            {Plugin_provide_options(ctx, p, oh[1], oh[2]) :
                oh \in OutcomesFor(FALSE)
                       \X BodiesFor(ParseOptionsShape(p) # "none")}

\* map(func) driven to its end by list(): the calls are made in the order of
\* names and the first exception ends the iteration
RECURSIVE PluginManager_map(_, _, _)
PluginManager_map(func, ctx, i) ==
    IF i > Len(names) \/ ctx.exc # NoExc THEN {ctx}
    ELSE UNION {PluginManager_map(func, c, i + 1) :
                   c \in generated_function(func, ctx, plugins[names[i]])}

\* PluginManager defines no __getitem__: indexing a manager raises TypeError
PluginManager_getitem(ctx, name) == Raise(ctx, Exc("TypeError"))

(***************************************************************************)
(* PluginTypeManager                                                       *)
(***************************************************************************)
\* load_plugins that sets plugins_loaded in a finally clause
PluginTypeManager_load_plugins_finally(ctx) ==
    IF ctx.loaded THEN {ctx}
    ELSE {[c EXCEPT !.loaded = TRUE] :
             c \in PluginManager_map("load_plugin", ctx, 1)}

\* load_plugins that forgets to set plugins_loaded
PluginTypeManager_load_plugins_unmarked(ctx) ==
    IF ctx.loaded THEN {ctx}
    ELSE PluginManager_map("load_plugin", ctx, 1)

\* load_plugins without the early return
PluginTypeManager_load_plugins_unguarded(ctx) ==
    {IF c.exc # NoExc THEN c ELSE [c EXCEPT !.loaded = TRUE] :
        c \in PluginManager_map("load_plugin", ctx, 1)}

\* load_plugins that undoes the loads it made when one of them fails
PluginTypeManager_load_plugins_rollback(ctx) ==
    IF ctx.loaded THEN {ctx}
    ELSE {IF c.exc # NoExc THEN [c EXCEPT !.plugin = ctx.plugin]
          ELSE [c EXCEPT !.loaded = TRUE] :
             c \in PluginManager_map("load_plugin", ctx, 1)}

PluginTypeManager_load_plugins(ctx) ==
    IF ctx.loaded THEN {ctx}
    ELSE {\* an exception leaves before plugins_loaded is set
          IF c.exc # NoExc THEN c ELSE [c EXCEPT !.loaded = TRUE] :
             c \in PluginManager_map("load_plugin", ctx, 1)}

\* register_options that leaves the loading to each plugin's first use
PluginTypeManager_register_options_lazy(ctx) ==
    {[c EXCEPT !.loaded = c.exc = NoExc \/ ctx.loaded] :
        c \in PluginManager_map("register_options", ctx, 1)}

\* register_options that takes plugins_loaded back when a hook fails
PluginTypeManager_register_options_rollback(ctx) ==
    UNION {IF c.exc # NoExc THEN {c}
           ELSE {[d EXCEPT !.loaded = d.exc = NoExc] :
                    d \in PluginManager_map("register_options", c, 1)} :
              c \in PluginTypeManager_load_plugins(ctx)}

PluginTypeManager_register_options(ctx) ==
    UNION {IF c.exc # NoExc THEN {c}
           ELSE PluginManager_map("register_options", c, 1) :
              c \in PluginTypeManager_load_plugins(ctx)}

\* provide_options that loads all plugins first, as register_options does
PluginTypeManager_provide_options_loading(ctx) ==
    UNION {IF c.exc # NoExc THEN {c}
           ELSE PluginManager_map("provide_options", c, 1) :
              c \in PluginTypeManager_load_plugins(ctx)}

PluginTypeManager_provide_options(ctx) ==
    PluginManager_map("provide_options", ctx, 1)

(***************************************************************************)
(* NotifierBuilderMixin                                                    *)
(***************************************************************************)
\* Notifier.register_listener
register_listener(ctx, name, plugin) ==
    [ctx EXCEPT !.trie = @ \cup {<<name, plugin>>}]

RECURSIVE NotifierBuilderMixin_build_notifier(_, _)
NotifierBuilderMixin_build_notifier(ctx, i) ==
    IF i > Len(names) \/ ctx.exc # NoExc THEN ctx
    ELSE LET c1 == PluginManager_getitem(ctx, names[i])
         IN  IF c1.exc # NoExc THEN c1
             ELSE NotifierBuilderMixin_build_notifier(
                      register_listener(c1, names[i], plugins[names[i]]), i + 1)

(***************************************************************************)
(* Checkers                                                                *)
(***************************************************************************)
RECURSIVE Checkers_checks_expecting(_, _, _)
Checkers_checks_expecting(ctx, argument_name, i) ==
    IF i > Len(values_order) \/ ctx.exc # NoExc THEN ctx
    ELSE LET p == values_order[i]
             c1 == Plugin_parameters(ctx, p)
             parameters == c1.params[p].val
         IN  IF Len(parameters) = 0
             THEN Raise(c1, Exc("IndexError"))
             ELSE Checkers_checks_expecting(
                      IF argument_name = parameters[1]
                      THEN [c1 EXCEPT !.yield = Append(@, p)] ELSE c1,
                      argument_name, i + 1)

\* ast_plugins, logical_line_plugins, physical_line_plugins: the attribute
\* the property caches in, and the argument it asks for
Checkers_classified(ctx, cached, argument_name) ==
    LET found == IF cached.set THEN cached.val ELSE <<>>
    IN  IF found # <<>>
        THEN [ctx |-> [ctx EXCEPT !.yield = found], cache |-> cached]
        ELSE LET c1 == Checkers_checks_expecting(
                           Log(ctx, "checks_expecting", argument_name),
                           argument_name, 1)
             IN  IF c1.exc # NoExc
                 THEN [ctx |-> [c1 EXCEPT !.yield = <<>>], cache |-> cached]
                 ELSE [ctx |-> c1, cache |-> Cached(c1.yield)]

(***************************************************************************)
(* Initial state: a type manager right after construction                  *)
(***************************************************************************)
Orders(S) ==
    {s \in [1..Cardinality(S) -> S] : \A i, j \in DOMAIN s : i # j => s[i] # s[j]}

\* PluginTypeManager.__init__ of a class whose namespace is ns
PluginTypeManager_init(ns) ==
    /\ namespace = ns
    /\ \E e \in Enumerations(ns) : PluginManager_init(e)
    /\ plugins_loaded = FALSE
    /\ _ast_plugins = Unset
    /\ _logical_line_plugins = Unset
    /\ _physical_line_plugins = Unset
    /\ notifier = {}
    /\ lastOp = "init"
    /\ lastArg = ""
    /\ log = <<>>
    /\ exc = NoExc
    /\ ret = <<>>

\* BaseFormatter.__init__ with options.output_file = f; after_init may have
\* set another line terminator
BaseFormatter_init(f, nl) ==
    /\ filename = f
    /\ output_fd = None
    /\ newline = nl
    /\ opened = 0
    /\ closed = {}
    /\ file_content = <<>>
    /\ stdout = <<>>
    /\ phase = "new"

\* a Listeners manager: every PluginTypeManager method and build_notifier
Init ==
    /\ PluginTypeManager_init("flake8.listen")
    /\ values_order = names
    /\ BaseFormatter_init("None", "LF")
    /\ has_format = FALSE

\* a Checkers manager, for the classification of the plugins
CheckersInit ==
    /\ PluginTypeManager_init("flake8.extension")
    /\ values_order \in Orders(Range(names))
    /\ BaseFormatter_init("None", "LF")
    /\ has_format = FALSE

(***************************************************************************)
(* Actions: one per public method                                          *)
(***************************************************************************)
fixedVars == <<namespace, names, plugins, values_order>>
checkerCaches == <<_ast_plugins, _logical_line_plugins, _physical_line_plugins>>

\* what a finished call leaves behind
Observe(op, arg, ctx) ==
    /\ lastOp' = op
    /\ lastArg' = arg
    /\ log' = ctx.log
    /\ exc' = ctx.exc
    /\ ret' = ctx.yield
    /\ _plugin' = ctx.plugin
    /\ _parameters' = ctx.params
    /\ plugins_loaded' = ctx.loaded
    /\ UNCHANGED <<fixedVars, formatterVars>>

CallLoadPlugin ==
    \E p \in Range(names), v \in BOOLEAN : \E out \in OutcomesFor(v) :
        /\ Observe(IF v THEN "load_plugin_verify" ELSE "load_plugin", p,
                   Plugin_load_plugin(Entry, p, v, out))
        /\ UNCHANGED <<checkerCaches, notifier>>

CallPlugin ==
    \E p \in Range(names) : \E out \in OutcomesFor(FALSE) :
        /\ Observe("plugin", p, Plugin_plugin(Entry, p, out))
        /\ UNCHANGED <<checkerCaches, notifier>>

CallExecute ==
    \E p \in Range(names) : \E out \in OutcomesFor(FALSE) :
        \E body \in {"ok", "Error"} :
            /\ Observe("execute", p, Plugin_execute(Entry, p, out, body))
            /\ UNCHANGED <<checkerCaches, notifier>>

CallParameters ==
    \E p \in Range(names) :
        /\ Observe("parameters", p, Plugin_parameters(Entry, p))
        /\ UNCHANGED <<checkerCaches, notifier>>

CallRegisterOptions ==
    \E p \in Range(names) : \E out \in OutcomesFor(FALSE) :
        \E body \in BodiesFor(HasAddOptions(p)) :
            /\ Observe("Plugin.register_options", p,
                       Plugin_register_options(Entry, p, out, body))
            /\ UNCHANGED <<checkerCaches, notifier>>

CallProvideOptions ==
    \E p \in Range(names) : \E out \in OutcomesFor(FALSE) :
        \E body \in BodiesFor(ParseOptionsShape(p) # "none") :
            /\ Observe("Plugin.provide_options", p,
                       Plugin_provide_options(Entry, p, out, body))
            /\ UNCHANGED <<checkerCaches, notifier>>

load_plugins ==
    \E c \in PluginTypeManager_load_plugins(Entry) :
        /\ Observe("load_plugins", "", c)
        /\ UNCHANGED <<checkerCaches, notifier>>

register_options ==
    \E c \in PluginTypeManager_register_options(Entry) :
        /\ Observe("register_options", "", c)
        /\ UNCHANGED <<checkerCaches, notifier>>

provide_options ==
    \E c \in PluginTypeManager_provide_options(Entry) :
        /\ Observe("provide_options", "", c)
        /\ UNCHANGED <<checkerCaches, notifier>>

build_notifier ==
    /\ namespace = "flake8.listen"
    /\ LET c == NotifierBuilderMixin_build_notifier(Entry, 1)
       IN  /\ Observe("build_notifier", "", c)
           /\ notifier' = IF c.exc = NoExc THEN c.trie ELSE notifier
    /\ UNCHANGED checkerCaches

ArgumentNames == {"tree", "logical_line", "physical_line"}

checks_expecting ==
    /\ namespace = "flake8.extension"
    /\ \E a \in ArgumentNames :
        LET c == Checkers_checks_expecting(
                     Log(Entry, "checks_expecting", a), a, 1)
        IN  Observe("checks_expecting", a,
                    IF c.exc = NoExc THEN c ELSE [c EXCEPT !.yield = <<>>])
    /\ UNCHANGED <<checkerCaches, notifier>>

ast_plugins ==
    /\ namespace = "flake8.extension"
    /\ LET r == Checkers_classified(Entry, _ast_plugins, "tree")
       IN  /\ Observe("ast_plugins", "tree", r.ctx)
           /\ _ast_plugins' = r.cache
    /\ UNCHANGED <<_logical_line_plugins, _physical_line_plugins, notifier>>

logical_line_plugins ==
    /\ namespace = "flake8.extension"
    /\ LET r == Checkers_classified(Entry, _logical_line_plugins, "logical_line")
       IN  /\ Observe("logical_line_plugins", "logical_line", r.ctx)
           /\ _logical_line_plugins' = r.cache
    /\ UNCHANGED <<_ast_plugins, _physical_line_plugins, notifier>>

physical_line_plugins ==
    /\ namespace = "flake8.extension"
    /\ LET r == Checkers_classified(Entry, _physical_line_plugins, "physical_line")
       IN  /\ Observe("physical_line_plugins", "physical_line", r.ctx)
           /\ _physical_line_plugins' = r.cache
    /\ UNCHANGED <<_ast_plugins, _logical_line_plugins, notifier>>

Next ==
    \/ CallLoadPlugin
    \/ CallPlugin
    \/ CallExecute
    \/ CallRegisterOptions
    \/ CallProvideOptions
    \/ load_plugins
    \/ register_options
    \/ provide_options
    \/ build_notifier

Spec == Init /\ [][Next]_vars

CheckersNext ==
    \/ CallParameters
    \/ checks_expecting
    \/ ast_plugins
    \/ logical_line_plugins
    \/ physical_line_plugins

CheckersSpec == CheckersInit /\ [][CheckersNext]_vars

\* names asked of a manager: the registered ones and one nobody registered
LookupNames == Registered("flake8.report") \cup {"missing"}
\* the default a caller of get supplies
Defaults == {"None", "fallback"}

\* __contains__
PluginTypeManager_contains(name) == name \in DOMAIN plugins

\* __getitem__: the dict raises KeyError for an absent key
PluginTypeManager_getitem(ctx, name) ==
    IF name \in DOMAIN plugins
    THEN [ctx EXCEPT !.yield = <<plugins[name]>>]
    ELSE Raise(ctx, Exc("KeyError"))

\* get without the membership test
PluginTypeManager_get_unguarded(ctx, name, default) ==
    PluginTypeManager_getitem(ctx, name)

PluginTypeManager_get(ctx, name, default) ==
    IF PluginTypeManager_contains(name)
    THEN PluginTypeManager_getitem(ctx, name)
    ELSE [ctx EXCEPT !.yield = <<default>>]

contains ==
    \E name \in LookupNames :
        /\ Observe("contains", name,
                   [Entry EXCEPT !.yield = <<PluginTypeManager_contains(name)>>])
        /\ UNCHANGED <<checkerCaches, notifier>>

getitem ==
    \E name \in LookupNames :
        /\ Observe("getitem", name, PluginTypeManager_getitem(Entry, name))
        /\ UNCHANGED <<checkerCaches, notifier>>

get ==
    \E name \in LookupNames, default \in Defaults :
        /\ Observe("get", <<name, default>>,
                   PluginTypeManager_get(Entry, name, default))
        /\ UNCHANGED <<checkerCaches, notifier>>

\* a ReportFormatters manager over a registry that may repeat names: the
\* PluginTypeManager methods and the lookups
ReportInit ==
    /\ namespace = "flake8.report"
    /\ \E e \in RepeatedEnumerations("flake8.report") : PluginManager_init(e)
    \* no method of this manager reads the order of plugins.values()
    /\ values_order = CHOOSE o \in Orders(Range(names)) : TRUE
    /\ plugins_loaded = FALSE
    /\ _ast_plugins = Unset
    /\ _logical_line_plugins = Unset
    /\ _physical_line_plugins = Unset
    /\ notifier = {}
    /\ lastOp = "init"
    /\ lastArg = ""
    /\ log = <<>>
    /\ exc = NoExc
    /\ ret = <<>>
    /\ BaseFormatter_init("None", "LF")
    /\ has_format = FALSE

ReportNext ==
    \/ load_plugins
    \/ register_options
    \/ provide_options
    \/ contains
    \/ getitem
    \/ get

ReportSpec == ReportInit /\ [][ReportNext]_vars

(***************************************************************************)
(* BaseFormatter                                                           *)
(***************************************************************************)
\* values of options.output_file: None, the empty string, a path
Filenames == {"None", "", "report.txt"}
\* Python truth of a filename
Truthy(f) == f \notin {"None", ""}
\* line terminators: "\n" and "\r\n"
Newlines == {"LF", "CRLF"}
Lines == {"l1"}
Errors == {"E1", "E2"}

\* format() of a class that overrides it
format(error) == IF error = "E1" THEN "E1 first" ELSE "E2 second"

\* the state of a formatter during a call
FEntry ==
    [output_fd |-> output_fd, opened |-> opened, closed |-> closed,
     file_content |-> file_content, stdout |-> stdout,
     log |-> <<>>, exc |-> NoExc]

\* the file object output_fd referred to before an assignment: the formatter
\* does not close it; it is closed at once where objects are reference
\* counted (finalized) and stays open otherwise
Dropped(f, finalized) ==
    IF f.output_fd # None /\ finalized THEN {f.output_fd} ELSE {}

\* start without the test of filename
BaseFormatter_start_unconditional(f, open_ok, finalized) ==
    IF open_ok
    THEN [f EXCEPT !.opened = @ + 1, !.output_fd = f.opened + 1,
                   !.closed = @ \cup Dropped(f, finalized),
                   !.file_content = <<>>]
    ELSE [f EXCEPT !.exc = Exc("IOError")]

BaseFormatter_start(f, open_ok, finalized) ==
    IF Truthy(filename)
    THEN IF open_ok
         THEN \* open(filename, 'w') truncates the file
              [f EXCEPT !.opened = @ + 1, !.output_fd = f.opened + 1,
                        !.closed = @ \cup Dropped(f, finalized),
                        !.file_content = <<>>]
         ELSE [f EXCEPT !.exc = Exc("IOError")]
    ELSE f

\* write that ends the printed line with the newline attribute
BaseFormatter_write_newline(f, line) ==
    IF f.output_fd # None
    THEN [f EXCEPT !.file_content = Append(@, <<line, newline>>),
                   !.log = Append(@, <<"file", line, newline>>)]
    ELSE [f EXCEPT !.stdout = Append(@, <<line, newline>>),
                   !.log = Append(@, <<"stdout", line, newline>>)]

BaseFormatter_write(f, line) ==
    IF f.output_fd # None
    THEN [f EXCEPT !.file_content = Append(@, <<line, newline>>),
                   !.log = Append(@, <<"file", line, newline>>)]
    ELSE \* print(line) ends the line with "\n"
         [f EXCEPT !.stdout = Append(@, <<line, "LF">>),
                   !.log = Append(@, <<"stdout", line, "LF">>)]

BaseFormatter_format(f, error) ==
    IF has_format THEN f ELSE [f EXCEPT !.exc = Exc("NotImplementedError")]

BaseFormatter_handle(f, error) ==
    LET f1 == BaseFormatter_format(f, error)
    IN  IF f1.exc # NoExc THEN f1
        ELSE BaseFormatter_write(f1, format(error))

BaseFormatter_stop(f) ==
    IF f.output_fd # None
    THEN [f EXCEPT !.closed = @ \cup {f.output_fd}, !.output_fd = None]
    ELSE f

FormatterInit ==
    /\ namespace = "flake8.report"
    /\ PluginManager_init(<<>>)
    /\ values_order = <<>>
    /\ plugins_loaded = FALSE
    /\ _ast_plugins = Unset
    /\ _logical_line_plugins = Unset
    /\ _physical_line_plugins = Unset
    /\ notifier = {}
    /\ lastOp = "init"
    /\ lastArg = ""
    /\ log = <<>>
    /\ exc = NoExc
    /\ ret = <<>>
    /\ \E f \in Filenames, nl \in Newlines : BaseFormatter_init(f, nl)
    /\ has_format \in BOOLEAN

FObserve(op, arg, f) ==
    /\ phase' = IF f.exc # NoExc THEN phase
                ELSE IF op = "start" THEN "started"
                ELSE IF op = "stop" THEN "stopped"
                ELSE phase
    /\ lastOp' = op
    /\ lastArg' = arg
    /\ log' = f.log
    /\ exc' = f.exc
    /\ output_fd' = f.output_fd
    /\ opened' = f.opened
    /\ closed' = f.closed
    /\ file_content' = f.file_content
    /\ stdout' = f.stdout
    /\ Len(f.file_content) <= MaxOutput
    /\ Len(f.stdout) <= MaxOutput
    /\ f.opened <= MaxOpens
    /\ UNCHANGED <<filename, newline, has_format, ret>>
    /\ UNCHANGED <<fixedVars, _plugin, _parameters, plugins_loaded,
                   checkerCaches, notifier>>

start ==
    \E open_ok, finalized \in BOOLEAN :
        FObserve("start", "", BaseFormatter_start(FEntry, open_ok, finalized))

handle ==
    \E error \in Errors :
        FObserve("handle", error, BaseFormatter_handle(FEntry, error))

write ==
    \E line \in Lines :
        FObserve("write", line, BaseFormatter_write(FEntry, line))

stop == FObserve("stop", "", BaseFormatter_stop(FEntry))

FormatterNext ==
    \/ start
    \/ handle
    \/ write
    \/ stop

FormatterSpec == FormatterInit /\ [][FormatterNext]_vars

(***************************************************************************)
(* Properties                                                              *)
(***************************************************************************)
ResolutionEvents == {"resolve", "load"}
EnvironmentErrors == {"ImportError", "DistributionNotFound"}
LoadPluginOps == {"load_plugin", "load_plugin_verify"}

\* the calls of kind ev in a log, as the sequence of the plugins called
IsAddOptions(e) == e[1] = "add_options"
PluginsOf(l) == [i \in DOMAIN l |-> l[i][2]]
HooksCalled == PluginsOf(SelectSeq(log, IsAddOptions))
IsPrefix(a, b) == Len(a) <= Len(b) /\ \A i \in DOMAIN a : a[i] = b[i]
Resolved(l, p) == \E i \in DOMAIN l : l[i][2] = p /\ l[i][1] \in ResolutionEvents

\* C1: once a plugin's loaded object is non-null, no call replaces it and no
\* call resolves the entry point again: a further load_plugin leaves the same
\* cached object and makes no resolution, so the resolution count stays one.
C1_LoadedObjectCached ==
    [][\A p \in DOMAIN _plugin :
          _plugin[p] # None => /\ _plugin'[p] = _plugin[p]
                               /\ ~Resolved(log', p)]_vars

\* a second load_plugin on a loaded plugin: it returned without resolving
C1_Witness ==
    /\ lastOp = "load_plugin"
    /\ _plugin[lastArg] # None
    /\ log = << <<"load_plugin", lastArg>> >>

\* after any call: an exception of the environment that arose while plugin p
\* was being loaded left the call as FailedToLoadPlugin carrying p and that
\* exception, and p is still not loaded
C2_AfterCall ==
    \A i \in DOMAIN log :
        log[i][1] \in EnvironmentErrors =>
            /\ exc = [type |-> "FailedToLoadPlugin", plugin |-> log[i][2],
                      exception |-> log[i][1]]
            /\ _plugin[log[i][2]] = None

\* C2: when the resolution, or with verify_requirements the requirement
\* verification, raises, load_plugin raises FailedToLoadPlugin carrying the
\* plugin and the original exception and the loaded object stays unset; a
\* later load_plugin on the unloaded plugin goes to the entry point again.
C2_FailedLoadWrappedAndRetried ==
    [][/\ C2_AfterCall'
       /\ \A p \in DOMAIN _plugin :
             (_plugin[p] = None /\ lastOp' \in LoadPluginOps /\ lastArg' = p)
                 => \E i \in DOMAIN log' :
                        /\ log'[i][2] = p
                        /\ log'[i][1] \in ResolutionEvents \cup {"require"}]_vars

\* load_plugin(verify_requirements=True) failed on the requirements
C2_Witness ==
    /\ lastOp = "load_plugin_verify"
    /\ exc = [type |-> "FailedToLoadPlugin", plugin |-> lastArg,
              exception |-> "DistributionNotFound"]
    /\ _plugin[lastArg] = None

\* C3: after load_plugins raised, plugins_loaded is false; after load_plugins
\* returned from a bulk load (it called load_plugin), every plugin of the
\* manager has a loaded object.
C3_RaiseLeavesUnloadedReturnMeansAllLoaded ==
    lastOp = "load_plugins" =>
        /\ exc # NoExc => ~plugins_loaded
        /\ (exc = NoExc /\ log # <<>>) =>
               \A n \in Range(names) : _plugin[plugins[n]] # None

\* a bulk load that failed on a later plugin after loading an earlier one
C3_Witness ==
    /\ lastOp = "load_plugins"
    /\ exc.type = "FailedToLoadPlugin"
    /\ ~plugins_loaded
    /\ \E n \in Range(names) : _plugin[n] # None

\* C4 as stated: whenever load_plugins was called, plugins_loaded is true
\* afterwards, also when a load_plugin call threw and propagated.
C4_Original == lastOp = "load_plugins" => plugins_loaded

\* C4 amended: after a call of load_plugins, plugins_loaded is true exactly
\* when the call returned; when a load_plugin call threw, the exception left
\* load_plugins before the assignment and plugins_loaded is still false.
C4_LoadedIffReturned ==
    lastOp = "load_plugins" => (plugins_loaded <=> exc = NoExc)

\* a bulk load of at least two plugins that returned
C4_Witness ==
    /\ lastOp = "load_plugins"
    /\ exc = NoExc
    /\ plugins_loaded
    /\ Len(names) >= 2
    /\ Len(log) >= 2 * Len(names)

\* C5: once plugins_loaded is true, a call of load_plugins returns at once:
\* it calls load_plugin on no plugin, raises nothing and changes neither a
\* plugin nor the manager.
C5_LoadPluginsIdempotent ==
    [][(plugins_loaded /\ lastOp' = "load_plugins") =>
          /\ log' = <<>>
          /\ exc' = NoExc
          /\ UNCHANGED <<names, plugins, _plugin, _parameters, plugins_loaded,
                         checkerCaches, notifier>>]_vars

\* a call on a manager with plugins that did nothing
C5_Witness ==
    /\ lastOp = "load_plugins"
    /\ plugins_loaded
    /\ names # <<>>
    /\ log = <<>>

\* C8: after register_options: no entry point was resolved after the first
\* option-registration hook ran and, if a hook ran, every plugin is loaded;
\* the hooks ran in discovery order over the plugins that have one, all of
\* them if the call returned; a returned call leaves plugins_loaded true; a
\* call that failed to load a plugin ran no hook.
C8_RegisterOptionsTwoPhase ==
    lastOp = "register_options" =>
        /\ \A i, j \in DOMAIN log :
              (i < j /\ log[i][1] = "add_options")
                  => log[j][1] \notin ResolutionEvents
        /\ HooksCalled # <<>> => \A n \in Range(names) : _plugin[n] # None
        /\ IsPrefix(HooksCalled, SelectSeq(names, HasAddOptions))
        /\ exc = NoExc => HooksCalled = SelectSeq(names, HasAddOptions)
        /\ exc = NoExc => plugins_loaded
        /\ exc.type = "FailedToLoadPlugin" => HooksCalled = <<>>

\* a call that loaded three plugins and then ran the two hooks there are
C8_Witness ==
    /\ lastOp = "register_options"
    /\ exc = NoExc
    /\ Len(names) = 3
    /\ Len(HooksCalled) = 2
    /\ \A n \in Range(names) : Resolved(log, n)

\* C9 as stated: build_notifier returns a Notifier in which every name is
\* registered with the Plugin stored under it, and loads no plugin.
C9_Original ==
    [][lastOp' = "build_notifier" =>
          /\ exc' = NoExc
          /\ notifier' = {<<n, plugins[n]>> : n \in Range(names)}
          /\ _plugin' = _plugin]_vars

Expecting(a) ==
    {p \in Range(names) :
        Len(DeclaredParameters(p)) > 0 /\ DeclaredParameters(p)[1] = a}

\* C6 as stated: checks_expecting(arg), and each of the three classification
\* properties, yields exactly the plugins whose first declared parameter is
\* arg, each once; a plugin without parameters is left out.
C6_Original ==
    lastOp \in {"checks_expecting", "ast_plugins", "logical_line_plugins",
                "physical_line_plugins"} =>
        /\ exc = NoExc
        /\ Range(ret) = Expecting(lastArg)
        /\ Len(ret) = Cardinality(Expecting(lastArg))

\* C7 as stated: once a classification property has been read, a later read
\* returns the cached list and does not run checks_expecting, whatever the
\* cached list is.
C7_Original ==
    [][/\ (_ast_plugins.set /\ lastOp' = "ast_plugins")
           => (ret' = _ast_plugins.val /\ log' = <<>>)
       /\ (_logical_line_plugins.set /\ lastOp' = "logical_line_plugins")
           => (ret' = _logical_line_plugins.val /\ log' = <<>>)
       /\ (_physical_line_plugins.set /\ lastOp' = "physical_line_plugins")
           => (ret' = _physical_line_plugins.val /\ log' = <<>>)]_vars

\* C10 as stated: in every lifecycle state write(line) writes to the file
\* when filename is set and to standard output otherwise, and the line is
\* followed by the newline attribute.
C10_Original ==
    lastOp = "write" =>
        log = << <<IF Truthy(filename) THEN "file" ELSE "stdout",
                   lastArg, newline>> >>

\* C10 amended: write(line) writes line followed by the newline attribute to
\* the file when filename is set and the formatter is between a start that
\* returned and the next stop; otherwise (filename unset, before start, after
\* stop) it prints line to standard output, followed by "\n" whatever the
\* newline attribute is.
C10_WriteFollowsOutputFd ==
    lastOp = "write" =>
        log = << IF Truthy(filename) /\ phase = "started"
                 THEN <<"file", lastArg, newline>>
                 ELSE <<"stdout", lastArg, "LF">> >>

\* a write after stop on a formatter with a filename and another newline
C10_Witness ==
    /\ lastOp = "write"
    /\ Truthy(filename)
    /\ phase = "stopped"
    /\ newline = "CRLF"
    /\ log = << <<"stdout", lastArg, "LF">> >>

\* the lines a formatter call prints or writes
Written == IF lastOp = "write" THEN lastArg ELSE format(lastArg)

\* C11: with filename unset, whatever is called, no file is opened and
\* nothing is written to a file; every write and every handle that returns
\* adds its line, ended by "\n", at the end of standard output (so two
\* handle calls leave their lines in call order) and no other call prints.
C11_UnsetFilenameOnlyStdout ==
    [][~Truthy(filename) =>
          /\ opened' = 0
          /\ output_fd' = None
          /\ file_content' = <<>>
          /\ IF lastOp' \in {"write", "handle"} /\ exc' = NoExc
             THEN stdout' = Append(stdout, <<Written', "LF">>)
             ELSE stdout' = stdout]_vars

\* handle(E1) and then handle(E2) on a formatter without filename
C11_Witness ==
    /\ ~Truthy(filename)
    /\ lastOp = "handle"
    /\ stdout = << <<format("E1"), "LF">>, <<format("E2"), "LF">> >>

\* the file objects the formatter opened that are not closed
OpenFiles == (1..opened) \ closed

\* C19 as stated: with filename set, at most one file object opened by the
\* formatter is open at a time, and after stop output_fd is null and no file
\* object opened by an earlier start is still open.
C19_Original ==
    Truthy(filename) =>
        /\ Cardinality(OpenFiles) <= 1
        /\ lastOp = "stop" => (output_fd = None /\ OpenFiles = {})

ParseEvents ==
    {"parse_options3", "parse_options1", "TypeError.arity",
     "parse_options.body", "TypeError", "Error"}
IsParseEvent(e) == e[1] \in ParseEvents
EventsOf(l) == [i \in DOMAIN l |-> l[i][1]]
\* what the last call did with parse_options hooks
ParseLog == EventsOf(SelectSeq(log, IsParseEvent))
FallbackRun ==
    <<"parse_options3", "TypeError.arity", "parse_options1",
      "parse_options.body">>

\* C12: Plugin.provide_options on a loaded (or loadable) plugin whose hook
\* takes (options) alone makes the three-argument call, which is rejected,
\* then calls the hook once with options alone; the rejection never leaves
\* the call (only an error of the hook's body does).  On a plugin without
\* the hook it calls nothing and returns.
C12_FallbackToOptionsAlone ==
    (lastOp = "Plugin.provide_options" /\ exc.type # "FailedToLoadPlugin") =>
        /\ ParseOptionsShape(lastArg) = "one" =>
              \/ ParseLog = FallbackRun /\ exc = NoExc
              \/ \E e \in {"TypeError", "Error"} :
                    ParseLog = Append(FallbackRun, e) /\ exc = Exc(e)
        /\ ParseOptionsShape(lastArg) = "none" =>
              (ParseLog = <<>> /\ exc = NoExc)

\* the fallback succeeded on a plugin that this call loaded
C12_Witness ==
    /\ lastOp = "Plugin.provide_options"
    /\ ParseOptionsShape(lastArg) = "one"
    /\ ParseLog = FallbackRun
    /\ exc = NoExc
    /\ Resolved(log, lastArg)

\* C18 as stated: a hook that takes (optmanager, options, extra_args) is
\* called once per provide_options call and never with options alone, and an
\* error of its body leaves the call.
C18_Original ==
    (lastOp = "Plugin.provide_options" /\ ParseOptionsShape(lastArg) = "three"
        /\ exc.type # "FailedToLoadPlugin") =>
        \/ ParseLog = <<"parse_options3", "parse_options.body">> /\ exc = NoExc
        \/ \E e \in {"TypeError", "Error"} :
              /\ ParseLog = <<"parse_options3", "parse_options.body", e>>
              /\ exc = Exc(e)

HasParseOptions(n) == ParseOptionsShape(n) # "none"
IsParseOptions3(e) == e[1] = "parse_options3"
\* position of a name in names
Pos(n) == CHOOSE i \in DOMAIN names : names[i] = n

\* C14: PluginTypeManager.provide_options leaves plugins_loaded as it was,
\* also when it was false.  It loads a plugin only when it comes to it: no
\* plugin is resolved before the hook of an earlier plugin was called.  When
\* it returns, the three-argument call was made on every plugin that has
\* the hook, in discovery order, and every plugin is loaded.
C14_ProvideOptionsDoesNotBulkLoad ==
    [][lastOp' = "provide_options" =>
          /\ plugins_loaded' = plugins_loaded
          /\ \A i, j \in DOMAIN log' :
                (/\ log'[i][1] \in ResolutionEvents
                 /\ log'[j][1] = "parse_options3"
                 /\ Pos(log'[j][2]) < Pos(log'[i][2])) => j < i
          /\ exc' = NoExc =>
                /\ PluginsOf(SelectSeq(log', IsParseOptions3))
                       = SelectSeq(names, HasParseOptions)
                /\ \A n \in Range(names) : _plugin'[n] # None]_vars

\* a call on three plugins, none loaded before, that returned
C14_Witness ==
    /\ lastOp = "provide_options"
    /\ ~plugins_loaded
    /\ exc = NoExc
    /\ Len(names) = 3
    /\ \A n \in Range(names) : Resolved(log, n)

\* C15: plugins_loaded is false after construction and no call takes it
\* from true back to false, whatever the call and however it ends.
C15_PluginsLoadedMonotonic ==
    /\ ~plugins_loaded
    /\ [][plugins_loaded => plugins_loaded']_vars

\* plugins_loaded is true after a call that raised
C15_Witness ==
    /\ plugins_loaded
    /\ lastOp = "register_options"
    /\ exc # NoExc

\* C17: a call of load_plugins resolves no plugin that was loaded before the
\* call and leaves its object alone.  When the call raises, it raises
\* FailedToLoadPlugin for some plugin k and plugins_loaded stays false: the
\* plugins before k in names are loaded, k is not, and the plugins after k
\* are as they were and were not called.
C17_NoRollbackOnFailure ==
    [][lastOp' = "load_plugins" =>
          /\ \A p \in DOMAIN _plugin :
                _plugin[p] # None =>
                    (~Resolved(log', p) /\ _plugin'[p] = _plugin[p])
          /\ exc' # NoExc =>
                /\ exc'.type = "FailedToLoadPlugin"
                /\ ~plugins_loaded'
                /\ \A i \in DOMAIN names :
                      /\ i < Pos(exc'.plugin) => _plugin'[names[i]] # None
                      /\ i = Pos(exc'.plugin) => _plugin'[names[i]] = None
                      /\ i > Pos(exc'.plugin) =>
                            /\ _plugin'[names[i]] = _plugin[names[i]]
                            /\ \A j \in DOMAIN log' :
                                  log'[j][2] # names[i]]_vars

\* the second of three plugins failed after the first was loaded by the call
C17_Witness ==
    /\ lastOp = "load_plugins"
    /\ Len(names) = 3
    /\ exc.type = "FailedToLoadPlugin"
    /\ exc.plugin = names[2]
    /\ Resolved(log, names[1])
    /\ _plugin[names[1]] # None
    /\ _plugin[names[3]] = None

\* how many times an event was logged
Count(l, e) == Cardinality({i \in DOMAIN l : l[i] = e})

\* C13 (as stated): whatever the registry enumerates, names holds exactly
\* the keys of plugins, each once; no operation changes names or plugins;
\* map applies func to each plugin exactly once.
C13_Original ==
    /\ [](/\ Range(names) = DOMAIN plugins
          /\ Len(names) = Cardinality(DOMAIN plugins)
          /\ (lastOp = "load_plugins" /\ exc = NoExc) =>
                \A p \in DOMAIN plugins : Count(log, <<"load_plugin", p>>) = 1)
    /\ [][names' = names /\ plugins' = plugins]_vars

\* C16: get(name, default) never raises.  It returns default for a name
\* that is not a key of plugins and the stored plugin for a key, which is
\* what contains and [name] say of the name; it changes no plugin and makes
\* no call on one.
C16_GetNeverRaises ==
    [][lastOp' = "get" =>
          LET name == lastArg'[1]
              default == lastArg'[2]
              indexed == PluginTypeManager_getitem(Entry, name)
          IN  /\ exc' = NoExc
              /\ ret' = IF name \in DOMAIN plugins THEN <<plugins[name]>>
                                                   ELSE <<default>>
              /\ PluginTypeManager_contains(name) <=> ret' # <<default>>
              /\ indexed.exc = NoExc => ret' = indexed.yield
              /\ indexed.exc # NoExc => ret' = <<default>>
              /\ log' = <<>>
              /\ _plugin' = _plugin
              /\ _parameters' = _parameters
              /\ plugins_loaded' = plugins_loaded]_vars

\* get returned the default for a name a non-empty manager does not hold
C16_Witness ==
    /\ lastOp = "get"
    /\ names # <<>>
    /\ lastArg[1] \notin DOMAIN plugins
    /\ ret = <<lastArg[2]>>
    /\ exc = NoExc
====
